---------------------------- MODULE Spec2Model ----------------------------
(***************************************************************************)
(* A model of the andor filter-expression engine: the tokenizer            *)
(* (source/tokenizer/tokenizer.ts), the recursive-descent parser           *)
(* (source/parser/parser.ts) and the evaluator                             *)
(* (source/evaluator/evaluator.ts).                                        *)
(*                                                                         *)
(* A string is a sequence of one-character strings; a token, an AST node   *)
(* and an error are records with the fields of the source.  Positions are  *)
(* 0-based as in the source, so the character at position p of a string s  *)
(* is s[p + 1].                                                            *)
(***************************************************************************)
EXTENDS Integers, Sequences, FiniteSets, TLC

(***************************************************************************)
(* Bounds of the model.                                                    *)
(***************************************************************************)
\* longest input of the character-level specification SpecTok
MaxLen == 4
\* most words of an input of the pipeline specification Spec
MaxWords == 5
\* most nodes of a tree of the evaluator specification SpecEval
MaxNodes == 5
\* longest subject list handed to evaluate
MaxSubjects == 2
\* how many nodes fewer than MaxNodes the trees of SpecCalls have
FewerNodes == 2

VARIABLES
    input,       \* Tokenizer.#input
    tokenizer,   \* Tokenizer.#position, #line, #column
    tokens,      \* the local `tokens` of Tokenizer.tokenize, then Parser.#tokens
    thrown,      \* the error tokenize threw, if any
    phase,       \* where the caller stands: "tokenize", "tokenizeFailed",
                 \* "tokenized" (the parser runs), "parseFailed", "parsed",
                 \* "constructed" (a tree built with the factories)
    parser,      \* Parser.#current and the parser's call stack
    expression,  \* the tree the caller holds: ExpressionEvaluator.#expression
    entities,    \* the subject list of the last call of the evaluator
    result,      \* the outcome of the last call of the evaluator
    remembered   \* an earlier call of evaluate the caller kept: its subject
                 \* list, its outcome, and whether none, one or more calls
                 \* were made since (0, 1, 2)

vars ==
    <<input, tokenizer, tokens, thrown, phase, parser, expression, entities, result,
      remembered>>

\* the value of `null` (no one-character string)
Null == "null"

(***************************************************************************)
(* source/tokenizer/helpers.ts                                             *)
(***************************************************************************)
IsWhitespace(char) ==
    char = " " \/ char = "\t" \/ char = "\n" \/ char = "\r"

(***************************************************************************)
(* source/tokenizer/tokenizer.ts                                           *)
(***************************************************************************)
\* new Tokenizer(input): the field initialisers
NewTokenizer == [position |-> 0, line |-> 1, column |-> 1]

\* Tokenizer.#peek
TokPeek(in, t) ==
    IF t.position >= Len(in) THEN Null ELSE in[t.position + 1]

\* Tokenizer.#advance
TokAdvance(in, t) ==
    IF t.position < Len(in)
    THEN [t EXCEPT !.position = @ + 1, !.column = @ + 1]
    ELSE t

\* a slip in #createToken: the type is stored as the value
CreateTokenTypeAsValue(t, type, value) ==
    [type |-> type, value |-> <<type>>, position |-> t.position,
     line |-> t.line, column |-> t.column]

\* Tokenizer.#createToken
CreateToken(t, type, value) ==
    [type |-> type, value |-> value, position |-> t.position,
     line |-> t.line, column |-> t.column]

\* a slip in #skipWhitespace: the tab is not among the characters skipped
RECURSIVE SkipWhitespaceNoTab(_, _)
SkipWhitespaceNoTab(in, t) ==
    IF t.position < Len(in)
    THEN LET char == TokPeek(in, t) IN
         CASE char = " " ->
                SkipWhitespaceNoTab(in, TokAdvance(in, t))
           [] char = "\n" ->
                SkipWhitespaceNoTab(in, [TokAdvance(in, t) EXCEPT !.line = @ + 1, !.column = 1])
           [] char = "\r" ->
                LET t1 == TokAdvance(in, t)
                    t2 == IF TokPeek(in, t1) = "\n" THEN TokAdvance(in, t1) ELSE t1
                IN  SkipWhitespaceNoTab(in, [t2 EXCEPT !.line = @ + 1, !.column = 1])
           [] OTHER -> t
    ELSE t

\* a slip in #skipWhitespace: after a CR the next character is consumed
\* whatever it is
RECURSIVE SkipWhitespaceCrEatsNext(_, _)
SkipWhitespaceCrEatsNext(in, t) ==
    IF t.position < Len(in)
    THEN LET char == TokPeek(in, t) IN
         CASE char = " " \/ char = "\t" ->
                SkipWhitespaceCrEatsNext(in, TokAdvance(in, t))
           [] char = "\n" ->
                SkipWhitespaceCrEatsNext(in, [TokAdvance(in, t) EXCEPT !.line = @ + 1, !.column = 1])
           [] char = "\r" ->
                LET t1 == TokAdvance(in, t)
                    t2 == TokAdvance(in, t1)
                IN  SkipWhitespaceCrEatsNext(in, [t2 EXCEPT !.line = @ + 1, !.column = 1])
           [] OTHER -> t
    ELSE t

\* a slip in #skipWhitespace: the LF after a CR is left to the next iteration,
\* which counts a second line
RECURSIVE SkipWhitespaceCrLfTwice(_, _)
SkipWhitespaceCrLfTwice(in, t) ==
    IF t.position < Len(in)
    THEN LET char == TokPeek(in, t) IN
         CASE char = " " \/ char = "\t" ->
                SkipWhitespaceCrLfTwice(in, TokAdvance(in, t))
           [] char = "\n" ->
                SkipWhitespaceCrLfTwice(in, [TokAdvance(in, t) EXCEPT !.line = @ + 1, !.column = 1])
           [] char = "\r" ->
                SkipWhitespaceCrLfTwice(in, [TokAdvance(in, t) EXCEPT !.line = @ + 1, !.column = 1])
           [] OTHER -> t
    ELSE t

\* Tokenizer.#skipWhitespace: the loop, one iteration per unfolding
RECURSIVE SkipWhitespace(_, _)
SkipWhitespace(in, t) ==
    IF t.position < Len(in)
    THEN LET char == TokPeek(in, t) IN
         CASE char = " " \/ char = "\t" ->
                SkipWhitespace(in, TokAdvance(in, t))
           [] char = "\n" ->
                SkipWhitespace(in, [TokAdvance(in, t) EXCEPT !.line = @ + 1, !.column = 1])
           [] char = "\r" ->
                LET t1 == TokAdvance(in, t)
                    t2 == IF TokPeek(in, t1) = "\n" THEN TokAdvance(in, t1) ELSE t1
                IN  SkipWhitespace(in, [t2 EXCEPT !.line = @ + 1, !.column = 1])
           [] OTHER -> t
    ELSE t

\* a slip in #readIdentifier: an opening parenthesis does not end the run
RECURSIVE ReadIdentifierThroughParen(_, _, _)
ReadIdentifierThroughParen(in, t, value) ==
    IF t.position < Len(in)
    THEN LET char == TokPeek(in, t) IN
         IF IsWhitespace(char) \/ char = ")"
         THEN [value |-> value, t |-> t]
         ELSE ReadIdentifierThroughParen(in, TokAdvance(in, t), Append(value, char))
    ELSE [value |-> value, t |-> t]

\* Tokenizer.#readIdentifier: the value read and the tokenizer after it
RECURSIVE ReadIdentifier(_, _, _)
ReadIdentifier(in, t, value) ==
    IF t.position < Len(in)
    THEN LET char == TokPeek(in, t) IN
         IF IsWhitespace(char) \/ char = "(" \/ char = ")"
         THEN [value |-> value, t |-> t]
         ELSE ReadIdentifier(in, TokAdvance(in, t), Append(value, char))
    ELSE [value |-> value, t |-> t]

\* String.prototype.toLocaleLowerCase on one character of the model's alphabet
ToLocaleLowerCase(char) ==
    CASE char = "A" -> "a"
      [] char = "N" -> "n"
      [] char = "D" -> "d"
      [] char = "O" -> "o"
      [] char = "R" -> "r"
      [] char = "T" -> "t"
      [] OTHER -> char

\* a slip in #matchKeyword: the identifier is compared as written
MatchKeywordCaseSensitive(ident) ==
    CASE ident = <<"a", "n", "d">> -> "AND"
      [] ident = <<"o", "r">> -> "OR"
      [] ident = <<"n", "o", "t">> -> "NOT"
      [] OTHER -> Null

\* Tokenizer.#matchKeyword
MatchKeyword(ident) ==
    LET lower == [i \in 1..Len(ident) |-> ToLocaleLowerCase(ident[i])] IN
    CASE lower = <<"a", "n", "d">> -> "AND"
      [] lower = <<"o", "r">> -> "OR"
      [] lower = <<"n", "o", "t">> -> "NOT"
      [] OTHER -> Null

\* an error object: ExpressionError and its subclasses
NoError == [name |-> "none"]

\* Tokenizer.#readIdentifierOrKeyword: the token (or the error thrown) and the
\* tokenizer after it
ReadIdentifierOrKeyword(in, t) ==
    LET read == ReadIdentifier(in, t, <<>>)
        value == read.value
        after == read.t
    IN  IF Len(value) = 0
        THEN [token |-> Null, t |-> after,
              error |-> [name |-> "TokenizerError",
                         message |-> <<"Unexpected character '", TokPeek(in, after), "'">>,
                         position |-> after.position, line |-> after.line,
                         column |-> after.column]]
        ELSE LET keywordType == MatchKeyword(value) IN
             [token |-> [type |-> IF keywordType = Null THEN "IDENTIFIER" ELSE keywordType,
                         value |-> value, position |-> t.position,
                         line |-> t.line, column |-> t.column],
              t |-> after, error |-> NoError]

\* Tokenizer.#nextToken
NextToken(in, t0) ==
    LET t == SkipWhitespace(in, t0) IN
    IF t.position >= Len(in)
    THEN [token |-> CreateToken(t, "EOF", <<>>), t |-> t, error |-> NoError]
    ELSE LET char == TokPeek(in, t) IN
         CASE char = "(" ->
                [token |-> CreateToken(t, "LEFT_PAREN", <<"(">>),
                 t |-> TokAdvance(in, t), error |-> NoError]
           [] char = ")" ->
                [token |-> CreateToken(t, "RIGHT_PAREN", <<")">>),
                 t |-> TokAdvance(in, t), error |-> NoError]
           [] OTHER -> ReadIdentifierOrKeyword(in, t)

\* Tokenizer.tokenize: the do-while loop from a tokenizer state on
RECURSIVE TokenizeFrom(_, _, _)
TokenizeFrom(in, t, toks) ==
    LET next == NextToken(in, t) IN
    IF next.error # NoError
    THEN [tokens |-> toks, error |-> next.error]
    ELSE IF next.token.type = "EOF"
         THEN [tokens |-> Append(toks, next.token), error |-> NoError]
         ELSE TokenizeFrom(in, next.t, Append(toks, next.token))

\* tokenize(input) = new Tokenizer(input).tokenize()
Tokenize(in) == TokenizeFrom(in, NewTokenizer, <<>>)

(***************************************************************************)
(* source/ast/factory.ts                                                   *)
(***************************************************************************)
identifier(pattern) == [type |-> "identifier", pattern |-> pattern]

and(left, right) == [type |-> "and", left |-> left, right |-> right]

or(left, right) == [type |-> "or", left |-> left, right |-> right]

not(expr) == [type |-> "not", expr |-> expr]

\* the value of a local that holds no expression yet
NoExpr == [type |-> "none"]

(***************************************************************************)
(* source/parser/error.ts                                                  *)
(***************************************************************************)
\* a string written as one fragment
Text(s) == <<s>>

\* a slip in fromToken: actual is the value of the token, empty or not
FromTokenActualIsValue(message, token, expected) ==
    [name |-> "ParseError", message |-> message, position |-> token.position,
     line |-> token.line, column |-> token.column, expected |-> expected,
     actual |-> token.value]

\* ParseError.fromToken
FromToken(message, token, expected) ==
    [name |-> "ParseError", message |-> message, position |-> token.position,
     line |-> token.line, column |-> token.column, expected |-> expected,
     actual |-> IF token.value # <<>> THEN token.value ELSE Text(token.type)]

(***************************************************************************)
(* source/parser/parser.ts.  The parser is a recursive-descent parser; its *)
(* call stack is the sequence p.stack of frames [fn, pc, left], the top    *)
(* frame last, and p.ret is the value the last returned call returned.     *)
(***************************************************************************)
\* what reading past the end of #tokens yields
Undefined ==
    [type |-> "undefined", value |-> <<>>, position |-> -1, line |-> -1, column |-> -1]

Frame(fn) == [fn |-> fn, pc |-> "entry", left |-> NoExpr]

\* new Parser(tokens).parse(): #current = 0, parse() entered
NewParser ==
    [current |-> 0, stack |-> <<Frame("parse")>>, ret |-> NoExpr,
     status |-> "running", error |-> NoError, result |-> NoExpr]

\* Parser.#peek
Peek(toks, p) ==
    IF p.current < Len(toks) THEN toks[p.current + 1] ELSE Undefined

\* Parser.#hasReachedEOF
HasReachedEOF(toks, p) == Peek(toks, p).type = "EOF"

\* Parser.#check
Check(toks, p, type) ==
    IF HasReachedEOF(toks, p) THEN FALSE ELSE Peek(toks, p).type = type

\* a slip in #advance: the cursor moves by two
AdvanceByTwo(toks, p) ==
    IF p.current < Len(toks) THEN [p EXCEPT !.current = @ + 2] ELSE p

\* Parser.#advance
Advance(toks, p) ==
    IF p.current < Len(toks) THEN [p EXCEPT !.current = @ + 1] ELSE p

\* Parser.#matchesAny, called with one type everywhere
MatchesAny(toks, p, type) ==
    IF Check(toks, p, type)
    THEN [matched |-> TRUE, p |-> Advance(toks, p)]
    ELSE [matched |-> FALSE, p |-> p]

\* a slip in #consume: the token is taken whatever its type
ConsumeNoCheck(toks, p, type, message) ==
    [token |-> Peek(toks, p), p |-> Advance(toks, p), error |-> NoError]

\* Parser.#consume
Consume(toks, p, type, message) ==
    IF Check(toks, p, type)
    THEN [token |-> Peek(toks, p), p |-> Advance(toks, p), error |-> NoError]
    ELSE [token |-> Undefined, p |-> p,
          error |-> FromToken(message, Peek(toks, p), Text(type))]

\* the top frame of the call stack
Top(p) == p.stack[Len(p.stack)]

\* a throw: the exception leaves every frame of the parser
Throw(p, error) ==
    [p EXCEPT !.status = "error", !.error = error, !.stack = <<>>]

\* a return of value from the top frame to its caller
Return(p, value) ==
    [p EXCEPT !.stack = SubSeq(@, 1, Len(@) - 1), !.ret = value]

\* a call of fn from the top frame, which goes on at pc with its local left
Call(p, pc, left, fn) ==
    [p EXCEPT !.stack = Append(SubSeq(@, 1, Len(@) - 1),
                               [fn |-> Top(p).fn, pc |-> pc, left |-> left])
                        \o <<Frame(fn)>>]

\* `return this.#fn()`: the top frame is replaced by the callee's
TailCall(p, fn) ==
    [p EXCEPT !.stack = Append(SubSeq(@, 1, Len(@) - 1), Frame(fn))]

\* a slip in parse: the expression is returned wherever the cursor stands
ParseStepNoLeftoverCheck(toks, p) ==
    IF Top(p).pc = "entry"
    THEN IF HasReachedEOF(toks, p)
         THEN Throw(p, FromToken(Text("Unexpected end of input: expected expression"),
                                 Peek(toks, p), Text("expression")))
         ELSE Call(p, "expression", NoExpr, "orExpression")
    ELSE [p EXCEPT !.status = "done", !.result = p.ret, !.stack = <<>>]

\* a slip in parse: the token stream is not checked for being empty
ParseStepNoEmptyCheck(toks, p) ==
    IF Top(p).pc = "entry"
    THEN Call(p, "expression", NoExpr, "orExpression")
    ELSE IF ~HasReachedEOF(toks, p)
         THEN LET token == Peek(toks, p) IN
              Throw(p, FromToken(Text("Unexpected token '") \o token.value \o Text("'"),
                                 token, Text("end of expression")))
         ELSE [p EXCEPT !.status = "done", !.result = p.ret, !.stack = <<>>]

\* a slip in parse: the leftover token is reported as #primary reports a token
\* it cannot start with
ParseStepLeftoverFromPrimary(toks, p) ==
    IF Top(p).pc = "entry"
    THEN IF HasReachedEOF(toks, p)
         THEN Throw(p, FromToken(Text("Unexpected end of input: expected expression"),
                                 Peek(toks, p), Text("expression")))
         ELSE Call(p, "expression", NoExpr, "orExpression")
    ELSE IF ~HasReachedEOF(toks, p)
         THEN LET token == Peek(toks, p) IN
              Throw(p, FromToken(Text("Unexpected token '") \o token.value \o Text("'"),
                                 token, Text("identifier or \"(\"")))
         ELSE [p EXCEPT !.status = "done", !.result = p.ret, !.stack = <<>>]

\* Parser.parse; #expression is `return this.#orExpression()`
ParseStep(toks, p) ==
    IF Top(p).pc = "entry"
    THEN IF HasReachedEOF(toks, p)
         THEN Throw(p, FromToken(Text("Unexpected end of input: expected expression"),
                                 Peek(toks, p), Text("expression")))
         ELSE Call(p, "expression", NoExpr, "orExpression")
    ELSE IF ~HasReachedEOF(toks, p)
         THEN LET token == Peek(toks, p) IN
              Throw(p, FromToken(Text("Unexpected token '") \o token.value \o Text("'"),
                                 token, Text("end of expression")))
         ELSE [p EXCEPT !.status = "done", !.result = p.ret, !.stack = <<>>]

\* a slip in #orExpression: the operands of the new node are swapped
OrExpressionStepSwapped(toks, p) ==
    IF Top(p).pc = "entry"
    THEN Call(p, "left", NoExpr, "andExpression")
    ELSE LET left == IF Top(p).pc = "left" THEN p.ret ELSE or(p.ret, Top(p).left)
             m == MatchesAny(toks, p, "OR")
         IN  IF m.matched
             THEN Call(m.p, "right", left, "andExpression")
             ELSE Return(p, left)

\* Parser.#orExpression
OrExpressionStep(toks, p) ==
    IF Top(p).pc = "entry"
    THEN Call(p, "left", NoExpr, "andExpression")
    ELSE LET left == IF Top(p).pc = "left" THEN p.ret ELSE or(Top(p).left, p.ret)
             m == MatchesAny(toks, p, "OR")
         IN  IF m.matched
             THEN Call(m.p, "right", left, "andExpression")
             ELSE Return(p, left)

\* a slip in #andExpression: the right operand is parsed as a whole expression
AndExpressionStepRightIsExpression(toks, p) ==
    IF Top(p).pc = "entry"
    THEN Call(p, "left", NoExpr, "notExpression")
    ELSE LET left == IF Top(p).pc = "left" THEN p.ret ELSE and(Top(p).left, p.ret)
             m == MatchesAny(toks, p, "AND")
         IN  IF m.matched
             THEN Call(m.p, "right", left, "orExpression")
             ELSE Return(p, left)

\* Parser.#andExpression
AndExpressionStep(toks, p) ==
    IF Top(p).pc = "entry"
    THEN Call(p, "left", NoExpr, "notExpression")
    ELSE LET left == IF Top(p).pc = "left" THEN p.ret ELSE and(Top(p).left, p.ret)
             m == MatchesAny(toks, p, "AND")
         IN  IF m.matched
             THEN Call(m.p, "right", left, "notExpression")
             ELSE Return(p, left)

\* a slip in #notExpression: the operand of NOT is parsed as an and_expr
NotExpressionStepBindsLooser(toks, p) ==
    IF Top(p).pc = "entry"
    THEN LET m == MatchesAny(toks, p, "NOT") IN
         IF m.matched
         THEN Call(m.p, "operand", NoExpr, "andExpression")
         ELSE TailCall(p, "primary")
    ELSE Return(p, not(p.ret))

\* a slip in #notExpression: NOT is not looked for, #primary is called at once
NotExpressionStepOnlyPrimary(toks, p) ==
    IF Top(p).pc = "entry"
    THEN TailCall(p, "primary")
    ELSE Return(p, not(p.ret))

\* Parser.#notExpression
NotExpressionStep(toks, p) ==
    IF Top(p).pc = "entry"
    THEN LET m == MatchesAny(toks, p, "NOT") IN
         IF m.matched
         THEN Call(m.p, "operand", NoExpr, "notExpression")
         ELSE TailCall(p, "primary")
    ELSE Return(p, not(p.ret))

\* a slip in #primary: the case of EOF is missing
PrimaryErrorNoEOFCase(token) ==
    IF token.type = "RIGHT_PAREN"
    THEN FromToken(Text("Unexpected ')': missing opening parenthesis or expression"),
                   token, Text("identifier or \"(\""))
    ELSE IF token.type = "AND" \/ token.type = "OR"
    THEN FromToken(Text("Unexpected '") \o token.value \o Text("': missing left operand"),
                   token, Text("identifier or \"(\""))
    ELSE FromToken(Text("Unexpected token '") \o token.value \o Text("'"),
                   token, Text("identifier or \"(\""))

\* a slip in #primary: the case of RIGHT_PAREN is missing
PrimaryErrorNoRightParenCase(token) ==
    IF token.type = "EOF"
    THEN FromToken(Text("Unexpected end of input: expected identifier or \"(\""),
                   token, Text("identifier or \"(\""))
    ELSE IF token.type = "AND" \/ token.type = "OR"
    THEN FromToken(Text("Unexpected '") \o token.value \o Text("': missing left operand"),
                   token, Text("identifier or \"(\""))
    ELSE FromToken(Text("Unexpected token '") \o token.value \o Text("'"),
                   token, Text("identifier or \"(\""))

\* a slip in #primary: the operator is reported in lower case
PrimaryErrorLowerCased(token) ==
    IF token.type = "EOF"
    THEN FromToken(Text("Unexpected end of input: expected identifier or \"(\""),
                   token, Text("identifier or \"(\""))
    ELSE IF token.type = "RIGHT_PAREN"
    THEN FromToken(Text("Unexpected ')': missing opening parenthesis or expression"),
                   token, Text("identifier or \"(\""))
    ELSE IF token.type = "AND" \/ token.type = "OR"
    THEN FromToken(Text("Unexpected '")
                       \o [i \in 1..Len(token.value) |-> ToLocaleLowerCase(token.value[i])]
                       \o Text("': missing left operand"),
                   token, Text("identifier or \"(\""))
    ELSE FromToken(Text("Unexpected token '") \o token.value \o Text("'"),
                   token, Text("identifier or \"(\""))

\* Parser.#primary, the error cases: what is thrown for the token that is
\* neither LEFT_PAREN nor IDENTIFIER
PrimaryError(token) ==
    IF token.type = "EOF"
    THEN FromToken(Text("Unexpected end of input: expected identifier or \"(\""),
                   token, Text("identifier or \"(\""))
    ELSE IF token.type = "RIGHT_PAREN"
    THEN FromToken(Text("Unexpected ')': missing opening parenthesis or expression"),
                   token, Text("identifier or \"(\""))
    ELSE IF token.type = "AND" \/ token.type = "OR"
    THEN FromToken(Text("Unexpected '") \o token.value \o Text("': missing left operand"),
                   token, Text("identifier or \"(\""))
    ELSE FromToken(Text("Unexpected token '") \o token.value \o Text("'"),
                   token, Text("identifier or \"(\""))

\* a slip in #primary: the closing parenthesis is not consumed
PrimaryStepNoClose(toks, p) ==
    IF Top(p).pc = "entry"
    THEN LET m == MatchesAny(toks, p, "LEFT_PAREN") IN
         IF m.matched
         THEN Call(m.p, "paren", NoExpr, "orExpression")
         ELSE IF Check(toks, p, "IDENTIFIER")
         THEN LET c == Consume(toks, p, "IDENTIFIER", Text("Expecte identifier")) IN
              Return(c.p, identifier(c.token.value))
         ELSE Throw(p, PrimaryError(Peek(toks, p)))
    ELSE Return(p, p.ret)

\* Parser.#primary
PrimaryStep(toks, p) ==
    IF Top(p).pc = "entry"
    THEN LET m == MatchesAny(toks, p, "LEFT_PAREN") IN
         IF m.matched
         THEN Call(m.p, "paren", NoExpr, "orExpression")
         ELSE IF Check(toks, p, "IDENTIFIER")
         THEN LET c == Consume(toks, p, "IDENTIFIER", Text("Expecte identifier")) IN
              Return(c.p, identifier(c.token.value))
         ELSE Throw(p, PrimaryError(Peek(toks, p)))
    ELSE LET c == Consume(toks, p, "RIGHT_PAREN", Text("Expected ')' after expression")) IN
         IF c.error # NoError
         THEN Throw(p, c.error)
         ELSE Return(c.p, p.ret)

\* one step of the method the top frame is in
ParserStep(toks, p) ==
    CASE Top(p).fn = "parse" -> ParseStep(toks, p)
      [] Top(p).fn = "orExpression" -> OrExpressionStep(toks, p)
      [] Top(p).fn = "andExpression" -> AndExpressionStep(toks, p)
      [] Top(p).fn = "notExpression" -> NotExpressionStep(toks, p)
      [] Top(p).fn = "primary" -> PrimaryStep(toks, p)

\* new Parser(tokens).parse() run to its end: p.status is "done" (p.result
\* returned) or "error" (p.error thrown)
RECURSIVE RunParser(_, _)
RunParser(toks, p) ==
    IF p.status # "running" THEN p ELSE RunParser(toks, ParserStep(toks, p))

\* parse(input): tokenize, then new Parser(tokens).parse()
parse(in) ==
    LET t == Tokenize(in) IN
    IF t.error # NoError
    THEN Throw(NewParser, t.error)
    ELSE RunParser(t.tokens, NewParser)

(***************************************************************************)
(* source/evaluator/evaluator.ts                                           *)
(***************************************************************************)
\* the documented wildcard, had it been implemented for a trailing *
EvaluateIdentifierGlob(expr, ents) ==
    LET pt == expr.pattern IN
    \E i \in 1..Len(ents) :
        IF pt # <<>> /\ pt[Len(pt)] = "*"
        THEN /\ Len(ents[i]) >= Len(pt) - 1
             /\ SubSeq(ents[i], 1, Len(pt) - 1) = SubSeq(pt, 1, Len(pt) - 1)
        ELSE pt = ents[i]

\* ExpressionEvaluator.#evaluateIdentifier: entities.some(...)
EvaluateIdentifier(expr, ents) ==
    \E i \in 1..Len(ents) : expr.pattern = ents[i]

\* a slip in #evaluateAnd: || for &&
RECURSIVE EvalAndAsOr(_, _)
EvalAndAsOr(expr, ents) ==
    CASE expr.type = "identifier" -> EvaluateIdentifier(expr, ents)
      [] expr.type = "and" ->
            IF EvalAndAsOr(expr.left, ents) THEN TRUE ELSE EvalAndAsOr(expr.right, ents)
      [] expr.type = "or" ->
            IF EvalAndAsOr(expr.left, ents) THEN TRUE ELSE EvalAndAsOr(expr.right, ents)
      [] expr.type = "not" -> ~EvalAndAsOr(expr.expr, ents)

\* ExpressionEvaluator.#eval with #evaluateAnd, #evaluateOr and #evaluateNot;
\* && and || evaluate their right operand only when the left one does not decide
RECURSIVE Eval(_, _)
Eval(expr, ents) ==
    CASE expr.type = "identifier" -> EvaluateIdentifier(expr, ents)
      [] expr.type = "and" ->
            IF Eval(expr.left, ents) THEN Eval(expr.right, ents) ELSE FALSE
      [] expr.type = "or" ->
            IF Eval(expr.left, ents) THEN TRUE ELSE Eval(expr.right, ents)
      [] expr.type = "not" -> ~Eval(expr.expr, ents)

\* new ExpressionEvaluator(expression): an object, with the method evaluate
NewExpressionEvaluator(expr) ==
    [class |-> "ExpressionEvaluator", callable |-> FALSE, expression |-> expr]

\* the outcome of a call: the value returned, or the error thrown
Returned(call, value) == [call |-> call, threw |-> "none", value |-> value]

Threw(call, error) == [call |-> call, threw |-> error, value |-> FALSE]

NoResult == [call |-> "none", threw |-> "none", value |-> FALSE]

\* no call kept
NoCall == [entities |-> <<>>, result |-> NoResult, since |-> 0]

\* a slip in #eval: the evaluator descends by narrowing the node to the operand
\* it evaluated first
ExpressionAfterEvalNarrowed(expr, ents) ==
    IF expr.type \in {"and", "or"} THEN expr.left ELSE expr

\* the tree after #eval has walked it: #eval and the #evaluate methods read
\* expression.type, pattern, left, right and expr and assign none of them
ExpressionAfterEval(expr, ents) == expr

\* the subject list after the call: entities.some(...) reads the readonly array
EntitiesAfterEval(expr, ents) == ents

\* ExpressionEvaluator.evaluate
EvaluatorEvaluate(evaluator, ents) == Eval(evaluator.expression, ents)

\* evaluate(expression, entities)
evaluate(expr, ents) ==
    Returned("evaluate", EvaluatorEvaluate(NewExpressionEvaluator(expr), ents))

\* createEvaluator(expression)
createEvaluator(expr) == NewExpressionEvaluator(expr)

\* the readme's `createEvaluator(expression)(entities)`: a call of the value
\* createEvaluator returned; a call of what is no function throws a TypeError
CallCreatedEvaluator(expr, ents) ==
    LET created == createEvaluator(expr) IN
    IF created.callable
    THEN Returned("createEvaluator", EvaluatorEvaluate(created, ents))
    ELSE Threw("createEvaluator", "TypeError")

(***************************************************************************)
(* The inputs.                                                             *)
(***************************************************************************)
\* the sequences over S of length at most n
SeqsUpTo(S, n) == UNION {[1..k -> S] : k \in 0..n}

\* the characters of the inputs of SpecTok
Chars == {"o", "r", "O", "R", "x", " ", "\t", "\n", "\r", "(", ")"}

\* every way to write each letter of a word in lower or upper case
RECURSIVE Casings(_)
Casings(word) ==
    IF word = <<>> THEN {<<>>}
    ELSE LET c == Head(word)
             u == CASE c = "a" -> "A" [] c = "n" -> "N" [] c = "d" -> "D"
                    [] c = "o" -> "O" [] c = "r" -> "R" [] c = "t" -> "T"
         IN  {<<h>> \o rest : h \in {c, u}, rest \in Casings(Tail(word))}

Keywords == {<<"a", "n", "d">>, <<"o", "r">>, <<"n", "o", "t">>}

\* the keywords in every casing, alone, between delimiters and as a part of a
\* longer run
KeywordInputs ==
    {pre \o k \o post :
        k \in UNION {Casings(w) : w \in Keywords},
        pre \in {<<>>, <<" ">>, <<"(">>, <<"x">>, <<"n">>},
        post \in {<<>>, <<"\n">>, <<")">>, <<"x">>, <<"r", "o", "i", "d">>}}

\* an identifier on a later line: after two line terminators and, or not, a
\* space
TerminatorInputs ==
    {t1 \o t2 \o pad \o <<"x">> :
        t1 \in {<<"\n">>, <<"\r">>, <<"\r", "\n">>},
        t2 \in {<<"\n">>, <<"\r">>, <<"\r", "\n">>},
        pad \in {<<>>, <<" ">>}}

TokInputs == SeqsUpTo(Chars, MaxLen) \cup KeywordInputs \cup TerminatorInputs

\* the words of the inputs of Spec
Words == {<<"a">>, <<"b">>, <<"a", "n", "d">>, <<"o", "r">>, <<"n", "o", "t">>,
          <<"(">>, <<")">>}

\* the words separated by single spaces
RECURSIVE Join(_)
Join(ws) ==
    IF ws = <<>> THEN <<>>
    ELSE IF Len(ws) = 1 THEN ws[1]
    ELSE ws[1] \o <<" ">> \o Join(Tail(ws))

WordInputs == {Join(ws) : ws \in SeqsUpTo(Words, MaxWords)}

\* the keywords in every casing where an identifier belongs and where an
\* operator belongs
CasedInputs ==
    {Join(pre \o <<k>> \o post) :
        k \in UNION {Casings(w) : w \in Keywords},
        pre \in {<<>>, <<<<"a">>>>, <<<<"(">>>>, <<<<"n", "o", "t">>>>,
                 <<<<"a">>, <<"o", "r">>>>, <<<<"a">>, <<"a", "n", "d">>>>},
        post \in {<<>>, <<<<"b">>>>}}

\* the inputs that hold nothing but whitespace
BlankInputs == {<<" ">>, <<"\n", "\t">>, <<"\r", "\n", " ">>}

\* the inputs of Spec
ParseInputs == WordInputs \cup CasedInputs \cup BlankInputs

\* the subjects, and the subject lists handed to the evaluator
Subjects == {<<"a">>, <<"b">>, <<"c">>}

SubjectLists == SeqsUpTo(Subjects, MaxSubjects)

\* the patterns and subjects of SpecEval
Patterns == {<<"a">>, <<"a", "*">>, <<"A">>}

PatternLists == SeqsUpTo(Patterns, MaxSubjects)

\* the trees of exactly n nodes built with the factories
RECURSIVE TreesOfSize(_)
TreesOfSize(n) ==
    IF n = 1 THEN {identifier(pt) : pt \in Patterns}
    ELSE {not(e) : e \in TreesOfSize(n - 1)}
         \cup UNION {{and(l, r) : l \in TreesOfSize(k), r \in TreesOfSize(n - 1 - k)}
                     : k \in 1..(n - 2)}
         \cup UNION {{or(l, r) : l \in TreesOfSize(k), r \in TreesOfSize(n - 1 - k)}
                     : k \in 1..(n - 2)}

Trees == UNION {TreesOfSize(n) : n \in 1..MaxNodes}

(***************************************************************************)
(* The state machine.                                                      *)
(***************************************************************************)
InitCommon ==
    /\ tokenizer = NewTokenizer
    /\ tokens = <<>>
    /\ thrown = NoError
    /\ parser = NewParser
    /\ entities = <<>>
    /\ result = NoResult
    /\ remembered = NoCall

\* parse(input) is called with a string of words
Init ==
    /\ input \in ParseInputs
    /\ phase = "tokenize"
    /\ expression = NoExpr
    /\ InitCommon

\* tokenize(input) is called with a string of characters
InitTok ==
    /\ input \in TokInputs
    /\ phase = "tokenize"
    /\ expression = NoExpr
    /\ InitCommon

\* a tree is built with the factories
InitEval ==
    /\ input = <<>>
    /\ phase = "constructed"
    /\ expression \in Trees
    /\ InitCommon

\* a small tree is built with the factories, to be evaluated many times
InitCalls ==
    /\ input = <<>>
    /\ phase = "constructed"
    /\ expression \in UNION {TreesOfSize(n) : n \in 1..(MaxNodes - FewerNodes)}
    /\ InitCommon

\* one iteration of the loop of Tokenizer.tokenize: #nextToken and the push
TokenizerNextToken ==
    /\ phase = "tokenize"
    /\ LET next == NextToken(input, tokenizer) IN
       /\ tokenizer' = next.t
       /\ thrown' = next.error
       /\ tokens' = IF next.error # NoError THEN tokens ELSE Append(tokens, next.token)
       /\ phase' = IF next.error # NoError THEN "tokenizeFailed"
                   ELSE IF next.token.type = "EOF" THEN "tokenized"
                   ELSE "tokenize"
    /\ UNCHANGED <<input, parser, expression, entities, result, remembered>>

\* the parser is running and its top frame is in the method fn
ParserIn(fn) ==
    /\ phase = "tokenized"
    /\ parser.status = "running"
    /\ Top(parser).fn = fn

\* what a step of the parser leaves to the caller of parse(input): the tree
\* returned or the error thrown, once the parser has ended
ParserStepped ==
    /\ phase' = CASE parser'.status = "done" -> "parsed"
                  [] parser'.status = "error" -> "parseFailed"
                  [] OTHER -> phase
    /\ expression' = IF parser'.status = "done" THEN parser'.result ELSE expression
    /\ UNCHANGED <<input, tokenizer, tokens, thrown, entities, result, remembered>>

ParserParse ==
    /\ ParserIn("parse")
    /\ parser' = ParseStep(tokens, parser)
    /\ ParserStepped

OrExpression ==
    /\ ParserIn("orExpression")
    /\ parser' = OrExpressionStep(tokens, parser)
    /\ ParserStepped

AndExpression ==
    /\ ParserIn("andExpression")
    /\ parser' = AndExpressionStep(tokens, parser)
    /\ ParserStepped

NotExpression ==
    /\ ParserIn("notExpression")
    /\ parser' = NotExpressionStep(tokens, parser)
    /\ ParserStepped

Primary ==
    /\ ParserIn("primary")
    /\ parser' = PrimaryStep(tokens, parser)
    /\ ParserStepped

\* evaluate(expression, subjects): the outcome, and the tree and the list as
\* the call leaves them
EvaluateCall(ents) ==
    /\ phase \in {"parsed", "constructed"}
    /\ result' = evaluate(expression, ents)
    /\ expression' = ExpressionAfterEval(expression, ents)
    /\ entities' = EntitiesAfterEval(expression, ents)
    /\ UNCHANGED <<input, tokenizer, tokens, thrown, phase, parser>>

\* evaluate(expression, subjects)
Evaluate ==
    /\ \E ents \in (IF phase = "parsed" THEN SubjectLists ELSE PatternLists) :
          EvaluateCall(ents)
    /\ remembered' = IF remembered = NoCall THEN remembered
                     ELSE [remembered EXCEPT !.since = IF @ = 0 THEN 1 ELSE 2]

\* evaluate(expression, subjects), and the caller keeps the list and the outcome
EvaluateAndRemember ==
    /\ \E ents \in (IF phase = "parsed" THEN SubjectLists ELSE PatternLists) :
          /\ EvaluateCall(ents)
          /\ remembered' = [entities |-> ents, result |-> result', since |-> 0]

\* createEvaluator(expression)(subjects)
CreateEvaluator ==
    /\ phase \in {"parsed", "constructed"}
    /\ \E ents \in (IF phase = "parsed" THEN SubjectLists ELSE PatternLists) :
          /\ entities' = ents
          /\ result' = CallCreatedEvaluator(expression, ents)
    /\ UNCHANGED <<input, tokenizer, tokens, thrown, phase, parser, expression, remembered>>

Next ==
    \/ TokenizerNextToken
    \/ ParserParse
    \/ OrExpression
    \/ AndExpression
    \/ NotExpression
    \/ Primary
    \/ Evaluate

NextTok == TokenizerNextToken

NextEval ==
    \/ Evaluate
    \/ CreateEvaluator

NextCalls ==
    \/ Evaluate
    \/ EvaluateAndRemember

\* the pipeline: parse(input), then evaluate
Spec == Init /\ [][Next]_vars

\* the tokenizer on strings of characters
SpecTok == InitTok /\ [][NextTok]_vars

\* the evaluator on trees built with the factories
SpecEval == InitEval /\ [][NextEval]_vars

\* evaluate called again and again on one tree built with the factories
SpecCalls == InitCalls /\ [][NextCalls]_vars

(***************************************************************************)
(* The claims.                                                             *)
(***************************************************************************)
\* the characters that end a run: whitespace and the parentheses
IsDelimiter(char) == char \in {" ", "\t", "\n", "\r", "(", ")"}

\* C1: for every input, the empty and the whitespace-only ones included, the
\* sequence tokenize returns is non-empty, its last token has type EOF and the
\* empty value, and no token but the last has type EOF.
C1_TokenStreamEndsInEOF ==
    /\ phase = "tokenized" =>
          /\ Len(tokens) >= 1
          /\ tokens[Len(tokens)].type = "EOF"
          /\ tokens[Len(tokens)].value = <<>>
          /\ \A i \in 1..(Len(tokens) - 1) : tokens[i].type # "EOF"
    /\ phase = "tokenize" => \A i \in 1..Len(tokens) : tokens[i].type # "EOF"

\* tokenize has returned the lone EOF token for a whitespace-only input
C1_Witness ==
    /\ phase = "tokenized"
    /\ Len(tokens) = 1
    /\ Len(input) >= 2

\* C2: for every input tokenize ends and returns normally: no TokenizerError is
\* thrown; a #nextToken call that returns no EOF token moves the cursor
\* forward, and the cursor never passes the end of the input, so the loop runs
\* at most once per character and once more for EOF; and #skipWhitespace skips
\* exactly the characters isWhitespace stops #readIdentifier on.
C2_TokenizeTerminates ==
    /\ [](phase # "tokenizeFailed" /\ thrown = NoError)
    /\ [][phase' = "tokenize" => tokenizer'.position > tokenizer.position]_vars
    /\ [](/\ tokenizer.position <= Len(input)
          /\ Len(tokens) <= tokenizer.position + (IF phase = "tokenized" THEN 1 ELSE 0))
    /\ [](\A c \in Chars :
            IsWhitespace(c) <=> SkipWhitespace(<<c>>, NewTokenizer).position = 1)

\* tokenize has returned after a #nextToken call that skipped a CR LF and read
\* an identifier
C2_Witness ==
    /\ phase = "tokenized"
    /\ Len(tokens) >= 2
    /\ \E i \in 1..(Len(input) - 1) : input[i] = "\r" /\ input[i + 1] = "\n"
    /\ \E j \in 1..Len(tokens) : tokens[j].type = "IDENTIFIER" /\ tokens[j].position >= 2

\* the run spells the keyword in some mix of upper and lower case
SpellsAnd(v) ==
    Len(v) = 3 /\ v[1] \in {"a", "A"} /\ v[2] \in {"n", "N"} /\ v[3] \in {"d", "D"}

SpellsOr(v) == Len(v) = 2 /\ v[1] \in {"o", "O"} /\ v[2] \in {"r", "R"}

SpellsNot(v) ==
    Len(v) = 3 /\ v[1] \in {"n", "N"} /\ v[2] \in {"o", "O"} /\ v[3] \in {"t", "T"}

\* a maximal run of characters that are no delimiters starts at position pos
StartsRun(in, pos) ==
    /\ pos < Len(in)
    /\ ~IsDelimiter(in[pos + 1])
    /\ pos = 0 \/ IsDelimiter(in[pos])

\* C3: the token of a maximal run of characters that are neither whitespace nor
\* parentheses has type AND, OR or NOT iff the whole run spells and, or, not in
\* any mix of cases, and type IDENTIFIER otherwise; its value is the run as
\* written; and every such run gets its token.
C3_KeywordIffWholeRun ==
    /\ \A i \in 1..Len(tokens) :
          LET k == tokens[i]
              last == k.position + Len(k.value)
          IN  k.type \notin {"LEFT_PAREN", "RIGHT_PAREN", "EOF"} =>
                /\ StartsRun(input, k.position)
                /\ k.value = SubSeq(input, k.position + 1, last)
                /\ \A j \in 1..Len(k.value) : ~IsDelimiter(k.value[j])
                /\ last = Len(input) \/ IsDelimiter(input[last + 1])
                /\ k.type = "AND" <=> SpellsAnd(k.value)
                /\ k.type = "OR" <=> SpellsOr(k.value)
                /\ k.type = "NOT" <=> SpellsNot(k.value)
                /\ k.type = "IDENTIFIER" <=>
                      ~(SpellsAnd(k.value) \/ SpellsOr(k.value) \/ SpellsNot(k.value))
    /\ phase = "tokenized" =>
          \A pos \in 0..(Len(input) - 1) :
              StartsRun(input, pos) =>
                  \E i \in 1..Len(tokens) :
                      /\ tokens[i].position = pos
                      /\ tokens[i].type \in {"AND", "OR", "NOT", "IDENTIFIER"}

\* the run AnD has become an AND token that keeps its casing, and a run that
\* only begins with a keyword has become an identifier
C3_Witness ==
    /\ phase = "tokenized"
    /\ \/ \E i \in 1..Len(tokens) :
             tokens[i].type = "AND" /\ tokens[i].value = <<"A", "n", "D">>
       \/ \E i \in 1..Len(tokens) :
             tokens[i].type = "IDENTIFIER" /\ tokens[i].value = <<"o", "r", "x">>

\* the tokens before the EOF token
BeforeEOF(toks) == SubSeq(toks, 1, Len(toks) - 1)

\* the number of parentheses open before the i-th token
DepthBefore(ts, i) ==
    Cardinality({j \in 1..(i - 1) : ts[j].type = "LEFT_PAREN"})
    - Cardinality({j \in 1..(i - 1) : ts[j].type = "RIGHT_PAREN"})

\* the places of the tokens of a type outside every parenthesis
TopLevel(ts, type) ==
    {i \in 1..Len(ts) : ts[i].type = type /\ DepthBefore(ts, i) = 0}

Least(S) == CHOOSE x \in S : \A y \in S : x <= y

Greatest(S) == CHOOSE x \in S : \A y \in S : x >= y

\* the tokens spell a formula: a disjunction of conjunctions of negated or
\* plain identifiers and parenthesised formulas
RECURSIVE ValidExpr(_)
ValidExpr(ts) ==
    IF ts = <<>> THEN FALSE
    ELSE IF TopLevel(ts, "OR") # {}
    THEN LET i == Least(TopLevel(ts, "OR")) IN
         ValidExpr(SubSeq(ts, 1, i - 1)) /\ ValidExpr(SubSeq(ts, i + 1, Len(ts)))
    ELSE IF TopLevel(ts, "AND") # {}
    THEN LET i == Least(TopLevel(ts, "AND")) IN
         ValidExpr(SubSeq(ts, 1, i - 1)) /\ ValidExpr(SubSeq(ts, i + 1, Len(ts)))
    ELSE IF ts[1].type = "NOT" THEN ValidExpr(Tail(ts))
    ELSE IF ts[1].type = "LEFT_PAREN"
    THEN /\ Len(ts) >= 3
         /\ ts[Len(ts)].type = "RIGHT_PAREN"
         /\ \A i \in 2..Len(ts) : DepthBefore(ts, i) >= 1
         /\ ValidExpr(SubSeq(ts, 2, Len(ts) - 1))
    ELSE Len(ts) = 1 /\ ts[1].type = "IDENTIFIER"

\* the truth value of the formula the tokens spell, an identifier being true
\* iff it is one of the subjects: or binds loosest, then and, then not
RECURSIVE Truth(_, _)
Truth(ts, ents) ==
    IF TopLevel(ts, "OR") # {}
    THEN LET i == Least(TopLevel(ts, "OR")) IN
         Truth(SubSeq(ts, 1, i - 1), ents) \/ Truth(SubSeq(ts, i + 1, Len(ts)), ents)
    ELSE IF TopLevel(ts, "AND") # {}
    THEN LET i == Least(TopLevel(ts, "AND")) IN
         Truth(SubSeq(ts, 1, i - 1), ents) /\ Truth(SubSeq(ts, i + 1, Len(ts)), ents)
    ELSE IF ts[1].type = "NOT" THEN ~Truth(Tail(ts), ents)
    ELSE IF ts[1].type = "LEFT_PAREN" THEN Truth(SubSeq(ts, 2, Len(ts) - 1), ents)
    ELSE ts[1].value \in {ents[k] : k \in 1..Len(ents)}

\* C4: for every syntactically valid expression E and every subject list S,
\* evaluate(parse(E), S) is the truth value of E read as a boolean formula in
\* which not binds tighter than and, and tighter than or, parentheses group,
\* and an identifier is true exactly when it is an element of S; parse returns
\* a tree for exactly the valid expressions.
C4_EvaluateParseIsTruth ==
    /\ phase = "parsed" => ValidExpr(BeforeEOF(tokens))
    /\ phase = "parseFailed" => ~ValidExpr(BeforeEOF(tokens))
    /\ (phase = "parsed" /\ result.call = "evaluate") =>
          /\ result.threw = "none"
          /\ result.value = Truth(BeforeEOF(tokens), entities)

\* "a and not b" has been evaluated to true for the subjects a, c
C4_Witness ==
    /\ phase = "parsed"
    /\ input = Join(<<<<"a">>, <<"a", "n", "d">>, <<"n", "o", "t">>, <<"b">>>>)
    /\ entities = <<<<"a">>, <<"c">>>>
    /\ result = Returned("evaluate", TRUE)

\* the types of the tokens before EOF hold no parenthesis
NoParens(toks) ==
    \A i \in 1..Len(toks) : toks[i].type \notin {"LEFT_PAREN", "RIGHT_PAREN"}

\* no And node has an Or child and no Not node an And or Or operand
RECURSIVE PrecedenceShaped(_)
PrecedenceShaped(e) ==
    CASE e.type = "identifier" -> TRUE
      [] e.type = "or" -> PrecedenceShaped(e.left) /\ PrecedenceShaped(e.right)
      [] e.type = "and" ->
            /\ e.left.type # "or" /\ e.right.type # "or"
            /\ PrecedenceShaped(e.left) /\ PrecedenceShaped(e.right)
      [] e.type = "not" ->
            /\ e.expr.type \notin {"and", "or"}
            /\ PrecedenceShaped(e.expr)
      [] OTHER -> FALSE

A == <<"a">>
B == <<"b">>
AND == <<"a", "n", "d">>
OR == <<"o", "r">>
NOT == <<"n", "o", "t">>

\* the parser has ended on the input spelled by the words
Ended(ws) == input = Join(ws) /\ phase \in {"parsed", "parseFailed"}

\* C5: in the tree parse returns for an input without parentheses no And node
\* has an Or node as a child and no Not node has an And or Or node as its
\* operand: "a or b and a" parses to Or(a, And(b, a)), "a and b or a" to
\* Or(And(a, b), a), "not a and b" to And(Not(a), b).
C5_Precedence ==
    /\ (phase = "parsed" /\ NoParens(tokens)) => PrecedenceShaped(expression)
    /\ Ended(<<A, OR, B, AND, A>>) =>
          phase = "parsed" /\ expression = or(identifier(A), and(identifier(B), identifier(A)))
    /\ Ended(<<A, AND, B, OR, A>>) =>
          phase = "parsed" /\ expression = or(and(identifier(A), identifier(B)), identifier(A))
    /\ Ended(<<NOT, A, AND, B>>) =>
          phase = "parsed" /\ expression = and(not(identifier(A)), identifier(B))

\* "a or b and a" has been parsed to an Or node over an And node
C5_Witness ==
    /\ phase = "parsed"
    /\ input = Join(<<A, OR, B, AND, A>>)
    /\ expression.type = "or"
    /\ expression.right.type = "and"

\* k Not nodes around e
RECURSIVE Nots(_, _)
Nots(k, e) == IF k = 0 THEN e ELSE not(Nots(k - 1, e))

\* the left-nested chain of the identifiers at the odd places of ts
RECURSIVE LeftChain(_, _)
LeftChain(ts, type) ==
    IF Len(ts) = 1 THEN identifier(ts[1].value)
    ELSE [type |-> type,
          left |-> LeftChain(SubSeq(ts, 1, Len(ts) - 2), type),
          right |-> identifier(ts[Len(ts)].value)]

\* ts is x1 op x2 op ... op xn with identifiers xi and operator tokens of type op
IsChain(ts, op) ==
    /\ Len(ts) % 2 = 1
    /\ \A i \in 1..Len(ts) :
          ts[i].type = (IF i % 2 = 1 THEN "IDENTIFIER" ELSE op)

\* ts is k NOT tokens and an identifier
IsNotChain(ts) ==
    /\ Len(ts) >= 1
    /\ ts[Len(ts)].type = "IDENTIFIER"
    /\ \A i \in 1..(Len(ts) - 1) : ts[i].type = "NOT"

\* the number of NOT tokens ts begins with, and the tokens after them
LeadingNots(ts) ==
    Cardinality({i \in 1..Len(ts) : \A j \in 1..i : ts[j].type = "NOT"})

AfterNots(ts) == SubSeq(ts, LeadingNots(ts) + 1, Len(ts))

\* ts is one identifier or one parenthesised unit
IsPrimary(ts) ==
    \/ Len(ts) = 1 /\ ts[1].type = "IDENTIFIER"
    \/ /\ Len(ts) >= 3
       /\ ts[1].type = "LEFT_PAREN"
       /\ ts[Len(ts)].type = "RIGHT_PAREN"
       /\ \A i \in 2..Len(ts) : DepthBefore(ts, i) >= 1

\* no And node has an And node as its right child, no Or node an Or node
RECURSIVE LeftNested(_)
LeftNested(e) ==
    CASE e.type = "identifier" -> TRUE
      [] e.type = "not" -> LeftNested(e.expr)
      [] e.type \in {"and", "or"} ->
            /\ e.right.type # e.type
            /\ LeftNested(e.left) /\ LeftNested(e.right)
      [] OTHER -> FALSE

\* C6: without parentheses a chain x1 and ... and xn (or ... or) parses to the
\* left-nested tree, so the right child of an And (Or) node is never an And
\* (Or) node; k NOT tokens before a primary (an identifier or a parenthesised
\* expression) parse to k nested Not nodes around the tree of the primary.
C6_Associativity ==
    LET ts == BeforeEOF(tokens) IN
    /\ (phase = "parsed" /\ NoParens(tokens)) => LeftNested(expression)
    /\ (phase \in {"parsed", "parseFailed"} /\ IsChain(ts, "AND")) =>
          phase = "parsed" /\ expression = LeftChain(ts, "and")
    /\ (phase \in {"parsed", "parseFailed"} /\ IsChain(ts, "OR")) =>
          phase = "parsed" /\ expression = LeftChain(ts, "or")
    /\ (phase \in {"parsed", "parseFailed"} /\ IsNotChain(ts)) =>
          phase = "parsed"
          /\ expression = Nots(Len(ts) - 1, identifier(ts[Len(ts)].value))
    /\ (phase = "parsed" /\ LeadingNots(ts) >= 1 /\ IsPrimary(AfterNots(ts))) =>
          expression = Nots(LeadingNots(ts),
                            RunParser(AfterNots(tokens), NewParser).result)

\* a chain of three operands, or of two NOT tokens, has been parsed
C6_Witness ==
    /\ phase = "parsed"
    /\ \/ input = Join(<<A, AND, B, AND, A>>)
       \/ input = Join(<<B, OR, A, OR, A>>)
       \/ input = Join(<<NOT, NOT, A>>)

\* the text between parentheses
Wrapped(in) == <<"(">> \o in \o <<")">>

\* C7: parentheses only group and leave no node in the tree: for every valid
\* expression E, "(" + E + ")" parses to the tree of E, at any depth, and a
\* parenthesised expression is one operand of the operator around it.
C7_ParenthesesOnlyGroup ==
    phase = "parsed" =>
        LET once == parse(Wrapped(input))
            twice == parse(Wrapped(Wrapped(input)))
            asLeft == parse(Wrapped(input) \o <<" ">> \o AND \o <<" ">> \o B)
            asRight == parse(B \o <<" ">> \o OR \o <<" ">> \o Wrapped(input))
            asOperand == parse(NOT \o Wrapped(input))
        IN  /\ once.status = "done" /\ once.result = expression
            /\ twice.status = "done" /\ twice.result = expression
            /\ asLeft.status = "done" /\ asLeft.result = and(expression, identifier(B))
            /\ asRight.status = "done" /\ asRight.result = or(identifier(B), expression)
            /\ asOperand.status = "done" /\ asOperand.result = not(expression)

\* "( a or b )" has been parsed to the tree of "a or b"
C7_Witness ==
    /\ phase = "parsed"
    /\ input = Join(<<<<"(">>, A, OR, B, <<")">>>>)
    /\ expression = or(identifier(A), identifier(B))

RECURSIVE RefEval(_, _)
RefEval(e, ents) ==
    CASE e.type = "identifier" -> e.pattern \in {ents[i] : i \in 1..Len(ents)}
      [] e.type = "and" ->
            LET l == RefEval(e.left, ents)
                r == RefEval(e.right, ents)
            IN  <<l, r>> = <<TRUE, TRUE>>
      [] e.type = "or" ->
            LET l == RefEval(e.left, ents)
                r == RefEval(e.right, ents)
            IN  <<l, r>> # <<FALSE, FALSE>>
      [] e.type = "not" -> ~RefEval(e.expr, ents)

\* C9: for every tree, however built, and every subject list, the empty one
\* included, evaluate raises no error and returns what the evaluator that
\* always evaluates both operands returns: And the conjunction, Or the
\* disjunction, Not the negation.
C9_ShortCircuitIsReference ==
    result.call = "evaluate" =>
        /\ result.threw = "none"
        /\ result.value \in BOOLEAN
        /\ result.value = RefEval(expression, entities)

\* an And node whose left operand is false, so that the right operand, an Or
\* node, is skipped, has been evaluated
C9_Witness ==
    /\ phase = "constructed"
    /\ result.call = "evaluate"
    /\ expression.type = "and"
    /\ expression.right.type = "or"
    /\ ~Eval(expression.left, entities)
    /\ Eval(expression.right, entities)

\* C10: the value createEvaluator(expression) returns, called with a subject
\* list, returns the boolean evaluate(expression, subjects) returns.
C10_CreatedEvaluatorIsEvaluate ==
    result.call = "createEvaluator" =>
        /\ result.threw = "none"
        /\ result.value = evaluate(expression, entities).value

\* a step of the evaluator leaves the tree as it was, and its outcome is the
\* one of the tree on the list as the call left it
C11_Frame ==
    phase \in {"parsed", "constructed"} =>
        /\ expression' = expression
        /\ result'.call = "evaluate" => result' = evaluate(expression, entities')

WhitespaceChars == {" ", "\t", "\n", "\r"}

\* the string without the whitespace it starts with
RECURSIVE StripLeading(_)
StripLeading(s) ==
    IF s # <<>> /\ Head(s) \in WhitespaceChars THEN StripLeading(Tail(s)) ELSE s

\* the string, every whitespace run between two other characters replaced by
\* sep and a whitespace run at its end dropped
RECURSIVE Respace(_, _)
Respace(s, sep) ==
    IF s = <<>> THEN <<>>
    ELSE IF Head(s) \in WhitespaceChars
         THEN LET rest == StripLeading(s) IN
              IF rest = <<>> THEN <<>> ELSE sep \o Respace(rest, sep)
         ELSE <<Head(s)>> \o Respace(Tail(s), sep)

\* the one string that stands for all strings that differ only in leading
\* whitespace, trailing whitespace and the whitespace runs between other
\* characters: no whitespace at either end, one space for every run
Normalize(s) == Respace(StripLeading(s), <<" ">>)

\* the (type, value) pairs of the tokens
TypesAndValues(toks) == [i \in 1..Len(toks) |-> <<toks[i].type, toks[i].value>>]

\* some whitespace runs
Separators == {<<c>> : c \in WhitespaceChars} \cup {<<"\r", "\n">>, <<"\t", " ">>}

\* C12: tokenize yields the same (type, value) pairs for the input and for
\* every input that differs from it only in leading whitespace, in trailing
\* whitespace or in which non-empty whitespace run separates two tokens: the
\* pairs are those of the normalized input (so any two inputs with the same
\* normal form agree), of the input with a run put before or after it, and of
\* the input with every separating run replaced by another.
C12_WhitespaceInvariance ==
    phase = "tokenized" =>
        /\ TypesAndValues(tokens) = TypesAndValues(Tokenize(Normalize(input)).tokens)
        /\ \A sep \in Separators :
              /\ TypesAndValues(tokens) = TypesAndValues(Tokenize(sep \o input).tokens)
              /\ TypesAndValues(tokens) = TypesAndValues(Tokenize(input \o sep).tokens)
              /\ TypesAndValues(tokens) =
                     TypesAndValues(Tokenize(Respace(StripLeading(input), sep)).tokens)

\* tokenize has returned two identifiers for an input with a tab before them, a
\* CR between them and none of it in its normal form
C12_Witness ==
    /\ phase = "tokenized"
    /\ input = <<"\t", "x", "\r", "o">>
    /\ Normalize(input) = <<"x", " ", "o">>
    /\ TypesAndValues(tokens) =
          << <<"IDENTIFIER", <<"x">> >>, <<"IDENTIFIER", <<"o">> >>, <<"EOF", <<>> >> >>

\* the character at index i (from 1) is the last one of a line terminator: an
\* LF, alone or after a CR, or a CR that no LF follows
EndsTerminator(in, i) ==
    \/ in[i] = "\n"
    \/ in[i] = "\r" /\ ~(i < Len(in) /\ in[i + 1] = "\n")

\* the indexes up to the offset at which a line terminator ends
TerminatorsBefore(in, offset) == {i \in 1..offset : EndsTerminator(in, i)}

\* the greatest of a set of naturals, 0 for the empty set
LastOf(S) == IF S = {} THEN 0 ELSE CHOOSE i \in S : \A j \in S : j <= i

\* where the token before the i-th one ends, 0 for the first
EndOfPrevious(toks, i) ==
    IF i = 1 THEN 0 ELSE toks[i - 1].position + Len(toks[i - 1].value)

\* C13: for every token, EOF included: its position is the offset of its first
\* character (only whitespace lies between the end of the token before it and
\* that offset, and its value is the text that starts there), the length of
\* the input for EOF; its line is 1 plus the number of line terminators before
\* the offset, LF, a lone CR and CR LF counting once each; its column is 1 plus
\* the number of characters between the end of the last such terminator, or
\* the start of the input, and the offset.
C13_PositionLineColumn ==
    \A i \in 1..Len(tokens) :
        LET token == tokens[i]
            offset == token.position
        IN  /\ offset \in EndOfPrevious(tokens, i)..Len(input)
            /\ \A k \in (EndOfPrevious(tokens, i) + 1)..offset :
                   input[k] \in WhitespaceChars
            /\ IF token.type = "EOF"
               THEN offset = Len(input)
               ELSE /\ token.value # <<>>
                    /\ offset + Len(token.value) <= Len(input)
                    /\ SubSeq(input, offset + 1, offset + Len(token.value)) = token.value
            /\ token.line = 1 + Cardinality(TerminatorsBefore(input, offset))
            /\ token.column = 1 + (offset - LastOf(TerminatorsBefore(input, offset)))

\* tokenize has returned an identifier on line 3, column 2, after a CR LF, a
\* lone CR and a space
C13_Witness ==
    /\ phase = "tokenized"
    /\ input = <<"\r", "\n", "\r", " ", "x">>
    /\ tokens[1] = [type |-> "IDENTIFIER", value |-> <<"x">>, position |-> 4,
                    line |-> 3, column |-> 2]

\* parse(input) has returned or thrown
Settled == phase \in {"parsed", "parseFailed"}

\* parse(input) threw a ParseError that points at the i-th token
FailedOn(i) ==
    /\ phase = "parseFailed"
    /\ parser.status = "error"
    /\ parser.error.name = "ParseError"
    /\ parser.error.position = tokens[i].position
    /\ parser.error.line = tokens[i].line
    /\ parser.error.column = tokens[i].column

\* the tokens up to the k-th are an expression and the next one, which is not
\* EOF, does not carry it on
LeftoverAfter(toks, k) ==
    /\ ValidExpr(SubSeq(toks, 1, k))
    /\ toks[k + 1].type \notin {"AND", "OR", "EOF"}

\* C14: when the tokens up to some place are a whole expression and a token
\* that is neither AND, OR nor EOF follows, parse throws a ParseError on that
\* token with the message "Unexpected token '<value>'" and expected "end of
\* expression"; and when parse returns a tree the cursor stands on EOF, every
\* token before it consumed.
C14_LeftoverToken ==
    /\ \A k \in 1..(Len(tokens) - 1) :
          (Settled /\ LeftoverAfter(tokens, k)) =>
              /\ FailedOn(k + 1)
              /\ parser.error.message =
                    <<"Unexpected token '">> \o tokens[k + 1].value \o <<"'">>
              /\ parser.error.expected = <<"end of expression">>
    /\ phase = "parsed" =>
          /\ parser.current = Len(tokens) - 1
          /\ \A k \in 1..(Len(tokens) - 1) : ~LeftoverAfter(tokens, k)

\* parse has thrown on the stray ) of "a and b )"
C14_Witness ==
    /\ phase = "parseFailed"
    /\ input = Join(<<A, AND, B, <<")">>>>)
    /\ LeftoverAfter(tokens, 3)
    /\ FailedOn(4)
    /\ parser.error.message = <<"Unexpected token '", ")", "'">>
    /\ parser.error.position = 8

\* the grammar expects a primary at the i-th token: it is the first token or
\* follows AND, OR, NOT or LEFT_PAREN; elsewhere an operand has just ended
PrimaryExpectedAt(toks, i) ==
    i = 1 \/ toks[i - 1].type \in {"AND", "OR", "NOT", "LEFT_PAREN"}

\* the i-th token may stand where it stands: where a primary is expected, an
\* identifier, NOT or LEFT_PAREN; after an operand, AND or OR, a RIGHT_PAREN
\* that closes an open parenthesis, or EOF with no parenthesis open
Fits(toks, i) ==
    IF PrimaryExpectedAt(toks, i)
    THEN toks[i].type \in {"IDENTIFIER", "NOT", "LEFT_PAREN"}
    ELSE \/ toks[i].type \in {"AND", "OR"}
         \/ toks[i].type = "RIGHT_PAREN" /\ DepthBefore(toks, i) > 0
         \/ toks[i].type = "EOF" /\ DepthBefore(toks, i) = 0

\* the i-th token is the first one that may not stand where it stands
FirstMisfit(toks, i) ==
    /\ i \in 1..Len(toks)
    /\ ~Fits(toks, i)
    /\ \A j \in 1..(i - 1) : Fits(toks, j)

\* C15: when the first token that does not fit is an AND or OR where a primary
\* is expected (the first token, or the one after AND, OR, NOT or LEFT_PAREN),
\* parse throws a ParseError on that token with the message "Unexpected
\* '<value>': missing left operand", <value> being the keyword as the input
\* spells it.
C15_MissingLeftOperand ==
    \A i \in 1..Len(tokens) :
        (/\ Settled
         /\ FirstMisfit(tokens, i)
         /\ PrimaryExpectedAt(tokens, i)
         /\ tokens[i].type \in {"AND", "OR"}) =>
            LET token == tokens[i] IN
            /\ FailedOn(i)
            /\ parser.error.message =
                  <<"Unexpected '">> \o token.value \o <<"': missing left operand">>
            /\ token.value =
                  SubSeq(input, token.position + 1, token.position + Len(token.value))

\* parse has thrown on the AnD of "a or AnD b"
C15_Witness ==
    /\ phase = "parseFailed"
    /\ input = Join(<<A, OR, <<"A", "n", "D">>, B>>)
    /\ FirstMisfit(tokens, 3)
    /\ tokens[3].type = "AND"
    /\ FailedOn(3)
    /\ parser.error.message = <<"Unexpected '", "A", "n", "D", "': missing left operand">>

\* the number of parentheses the tokens from the i-th to the j-th leave open
OpenIn(toks, i, j) ==
    Cardinality({k \in i..j : toks[k].type = "LEFT_PAREN"})
    - Cardinality({k \in i..j : toks[k].type = "RIGHT_PAREN"})

\* some LEFT_PAREN is not matched by a RIGHT_PAREN before EOF
UnmatchedLeftParen(toks) ==
    \E i \in 1..Len(toks) :
        /\ toks[i].type = "LEFT_PAREN"
        /\ \A j \in i..Len(toks) : OpenIn(toks, i, j) > 0

\* the i-th token is the first one that does not fit, and it stands after an
\* operand inside an open parenthesis
CloseExpectedAt(toks, i) ==
    /\ FirstMisfit(toks, i)
    /\ ~PrimaryExpectedAt(toks, i)
    /\ DepthBefore(toks, i) > 0

\* C16, as stated: for every input with a LEFT_PAREN that no RIGHT_PAREN
\* matches before EOF, parse throws a ParseError with the message "Expected
\* ')' after expression".
C16_UnmatchedParenMessage ==
    (Settled /\ UnmatchedLeftParen(tokens)) =>
        /\ phase = "parseFailed"
        /\ parser.error.message = <<"Expected ')' after expression">>

\* C16, amended: every input with an unmatched LEFT_PAREN fails to parse; the
\* error has the message "Expected ')' after expression" (and expected
\* "RIGHT_PAREN") exactly when the first token that does not fit stands after
\* a completed operand inside an open parenthesis (EOF, an identifier, NOT or
\* LEFT_PAREN where ) is due), and the error is on that token.
C16_ExpectedCloseParen ==
    /\ (Settled /\ UnmatchedLeftParen(tokens)) => phase = "parseFailed"
    /\ \A i \in 1..Len(tokens) :
          (Settled /\ CloseExpectedAt(tokens, i)) =>
              /\ FailedOn(i)
              /\ parser.error.message = <<"Expected ')' after expression">>
              /\ parser.error.expected = <<"RIGHT_PAREN">>
    /\ (phase = "parseFailed"
           /\ parser.error.message = <<"Expected ')' after expression">>) =>
          \E i \in 1..Len(tokens) : CloseExpectedAt(tokens, i)

\* parse has thrown on the EOF of "( a and b"
C16_Witness ==
    /\ phase = "parseFailed"
    /\ input = Join(<<<<"(">>, A, AND, B>>)
    /\ UnmatchedLeftParen(tokens)
    /\ CloseExpectedAt(tokens, 5)
    /\ tokens[5].type = "EOF"
    /\ FailedOn(5)

\* the i-th token is a LEFT_PAREN right after a completed primary, an
\* identifier or a closing parenthesis, and the first token that does not fit
StrayLeftParenAt(toks, i) ==
    /\ FirstMisfit(toks, i)
    /\ toks[i].type = "LEFT_PAREN"
    /\ i > 1
    /\ toks[i - 1].type \in {"IDENTIFIER", "RIGHT_PAREN"}

\* C17, as stated: whenever a LEFT_PAREN follows a completed primary with no
\* operator between them, parse throws a ParseError with the message
\* "Unexpected token '('".
C17_StrayLeftParenIsGeneric ==
    \A i \in 1..Len(tokens) :
        (Settled /\ StrayLeftParenAt(tokens, i)) =>
            /\ phase = "parseFailed"
            /\ parser.error.message = <<"Unexpected token '", "(", "'">>

\* C17, amended: a LEFT_PAREN right after a completed primary makes parse throw
\* a ParseError on it; outside every parenthesis it is the leftover token of
\* parse, with the message "Unexpected token '('" and expected "end of
\* expression"; inside an open parenthesis it stands where ) is due, and
\* the message is "Expected ')' after expression", expected "RIGHT_PAREN".
C17_StrayLeftParen ==
    \A i \in 1..Len(tokens) :
        (Settled /\ StrayLeftParenAt(tokens, i)) =>
            /\ FailedOn(i)
            /\ IF DepthBefore(tokens, i) = 0
               THEN /\ parser.error.message = <<"Unexpected token '", "(", "'">>
                    /\ parser.error.expected = <<"end of expression">>
               ELSE /\ parser.error.message = <<"Expected ')' after expression">>
                    /\ parser.error.expected = <<"RIGHT_PAREN">>

\* parse has thrown on the ( of "a ( b )"
C17_Witness ==
    /\ phase = "parseFailed"
    /\ input = Join(<<A, <<"(">>, B, <<")">>>>)
    /\ StrayLeftParenAt(tokens, 2)
    /\ FailedOn(2)
    /\ parser.error.message = <<"Unexpected token '", "(", "'">>
    /\ parser.error.expected = <<"end of expression">>

\* C18: when the first token that does not fit is EOF where a primary is
\* expected, after at least one token (a trailing AND, OR or NOT, or a
\* LEFT_PAREN with nothing after it), parse throws a ParseError on EOF with
\* the message 'Unexpected end of input: expected identifier or "("' and
\* expected 'identifier or "("'.
C18_EndOfInputInPrimary ==
    \A i \in 2..Len(tokens) :
        (/\ Settled
         /\ FirstMisfit(tokens, i)
         /\ tokens[i].type = "EOF"
         /\ tokens[i - 1].type \in {"AND", "OR", "NOT", "LEFT_PAREN"}) =>
            /\ FailedOn(i)
            /\ parser.error.position = Len(input)
            /\ parser.error.message =
                  <<"Unexpected end of input: expected identifier or \"(\"">>
            /\ parser.error.expected = <<"identifier or \"(\"">>

\* parse has thrown on the EOF of "a and not"
C18_Witness ==
    /\ phase = "parseFailed"
    /\ input = Join(<<A, AND, NOT>>)
    /\ FirstMisfit(tokens, 4)
    /\ tokens[4].type = "EOF"
    /\ FailedOn(4)
    /\ parser.error.position = 9
    /\ parser.error.expected = <<"identifier or \"(\"">>

\* tokenize(input) has returned the EOF token alone
LoneEOF == phase \in {"tokenized", "parsed", "parseFailed"} /\ Len(tokens) = 1

\* C19: when the token stream is the EOF token alone, which is so exactly for
\* the empty and the whitespace-only input, parse throws a ParseError on EOF
\* with the message "Unexpected end of input: expected expression" and
\* expected "expression"; it throws from parse itself, no grammar rule having
\* been called; and no other input gets this message.
C19_EmptyInput ==
    /\ LoneEOF <=>
          /\ phase \in {"tokenized", "parsed", "parseFailed"}
          /\ \A k \in 1..Len(input) : input[k] \in WhitespaceChars
    /\ LoneEOF =>
          /\ phase # "parsed"
          /\ \A k \in 1..Len(parser.stack) : parser.stack[k].fn = "parse"
    /\ (LoneEOF /\ Settled) =>
          /\ FailedOn(1)
          /\ parser.error.message = <<"Unexpected end of input: expected expression">>
          /\ parser.error.expected = <<"expression">>
    /\ (phase = "parseFailed"
           /\ parser.error.message = <<"Unexpected end of input: expected expression">>) =>
          LoneEOF

\* parse has thrown on the EOF of an input of a line feed and a tab
C19_Witness ==
    /\ phase = "parseFailed"
    /\ input = <<"\n", "\t">>
    /\ LoneEOF
    /\ FailedOn(1)
    /\ parser.error.position = 2
    /\ parser.error.line = 2
    /\ parser.error.message = <<"Unexpected end of input: expected expression">>

\* C20: when the first token that does not fit is a RIGHT_PAREN where a
\* primary is expected (the first token, or the one after LEFT_PAREN, AND, OR
\* or NOT), parse throws a ParseError on that token with the message
\* "Unexpected ')': missing opening parenthesis or expression".
C20_RightParenInPrimary ==
    \A i \in 1..Len(tokens) :
        (/\ Settled
         /\ FirstMisfit(tokens, i)
         /\ PrimaryExpectedAt(tokens, i)
         /\ tokens[i].type = "RIGHT_PAREN") =>
            /\ FailedOn(i)
            /\ parser.error.message =
                  <<"Unexpected ')': missing opening parenthesis or expression">>

\* parse has thrown on the ) of "a or ( )"
C20_Witness ==
    /\ phase = "parseFailed"
    /\ input = Join(<<A, OR, <<"(">>, <<")">>>>)
    /\ FirstMisfit(tokens, 4)
    /\ tokens[4].type = "RIGHT_PAREN"
    /\ FailedOn(4)
    /\ parser.error.message =
          <<"Unexpected ')': missing opening parenthesis or expression">>

\* C21: every error parse throws is a ParseError made from the token under the
\* cursor, which is the first token that does not fit: it carries that token's
\* position, line and column, a non-empty expected description, and as actual
\* the token's value, or the type name "EOF" when the value is empty.
C21_ErrorCarriesOffendingToken ==
    phase = "parseFailed" =>
        LET token == tokens[parser.current + 1] IN
        /\ parser.current + 1 \in 1..Len(tokens)
        /\ FirstMisfit(tokens, parser.current + 1)
        /\ FailedOn(parser.current + 1)
        /\ parser.error.position \in 0..Len(input)
        /\ token.type # "EOF" =>
              SubSeq(input, parser.error.position + 1,
                     parser.error.position + Len(token.value)) = token.value
        /\ parser.error.expected # <<>>
        /\ parser.error.expected \in
              {<<"expression">>, <<"end of expression">>, <<"identifier or \"(\"">>,
               <<"RIGHT_PAREN">>}
        /\ parser.error.actual =
              IF token.type = "EOF" THEN <<"EOF">> ELSE token.value
        /\ token.value = <<>> <=> token.type = "EOF"

\* parse has thrown on the EOF of "a and": position 5, line 1, actual "EOF"
C21_Witness ==
    /\ phase = "parseFailed"
    /\ input = Join(<<A, AND>>)
    /\ parser.error.position = 5
    /\ parser.error.line = 1
    /\ parser.error.column = 6
    /\ parser.error.actual = <<"EOF">>
    /\ parser.error.expected = <<"identifier or \"(\"">>

\* the parser holds the whole token stream
ParserHasTokens == phase \in {"tokenized", "parsed", "parseFailed"}

\* the cursor stands on a token, at most on the last one, which is EOF, so
\* that #peek yields a token
CursorOnToken ==
    ParserHasTokens =>
        /\ parser.current \in 0..(Len(tokens) - 1)
        /\ tokens[Len(tokens)].type = "EOF"
        /\ Peek(tokens, parser) # Undefined
        /\ Peek(tokens, parser) = tokens[parser.current + 1]

\* the cursor moves only while the parser runs, by one token, and off a token
\* that is not EOF
CursorAdvancesOffNonEOF ==
    parser'.current # parser.current =>
        /\ phase = "tokenized"
        /\ parser'.current = parser.current + 1
        /\ tokens[parser.current + 1].type # "EOF"

\* C22: in every state of the parser the cursor #current is at most the index
\* of the EOF token, the last of the token stream, and #peek yields a token;
\* every step that moves the cursor moves it by one off a token that is not
\* EOF.
C22_CursorWithinTokens ==
    /\ []CursorOnToken
    /\ [][CursorAdvancesOffNonEOF]_vars

\* parse has returned with the cursor on the EOF token, five tokens consumed
C22_Witness ==
    /\ phase = "parsed"
    /\ Len(tokens) = 6
    /\ parser.current = 5
    /\ Peek(tokens, parser).type = "EOF"

\* the indexes (from 1) of the input's characters the token covers
CoveredBy(token) == (token.position + 1)..(token.position + Len(token.value))

\* C23: the tokens before EOF partition the non-whitespace characters of the
\* input in order: each value is non-empty, free of whitespace and the text of
\* the input at the token's position; a token ends at or before the start of
\* the next, so positions increase strictly; every character no token covers
\* is a space, tab, LF or CR; and every parenthesis of the input is a
\* LEFT_PAREN or RIGHT_PAREN token of length 1, whatever stands next to it.
C23_TokensPartitionInput ==
    phase = "tokenized" =>
        LET toks == BeforeEOF(tokens) IN
        /\ \A i \in 1..Len(toks) :
              /\ toks[i].type # "EOF"
              /\ toks[i].value # <<>>
              /\ CoveredBy(toks[i]) \subseteq 1..Len(input)
              /\ toks[i].value =
                    SubSeq(input, toks[i].position + 1,
                           toks[i].position + Len(toks[i].value))
              /\ \A k \in CoveredBy(toks[i]) : input[k] \notin WhitespaceChars
              /\ toks[i].type \in {"LEFT_PAREN", "RIGHT_PAREN"} => Len(toks[i].value) = 1
              /\ toks[i].type \notin {"LEFT_PAREN", "RIGHT_PAREN"} =>
                    \A k \in CoveredBy(toks[i]) : input[k] \notin {"(", ")"}
        /\ \A i \in 1..(Len(toks) - 1) :
              /\ toks[i].position < toks[i + 1].position
              /\ toks[i].position + Len(toks[i].value) <= toks[i + 1].position
        /\ \A k \in 1..Len(input) :
              \/ input[k] \in WhitespaceChars
              \/ \E i \in 1..Len(toks) : k \in CoveredBy(toks[i])
        /\ \A k \in 1..Len(input) :
              /\ input[k] = "(" =>
                    \E i \in 1..Len(toks) :
                        toks[i].type = "LEFT_PAREN" /\ CoveredBy(toks[i]) = {k}
              /\ input[k] = ")" =>
                    \E i \in 1..Len(toks) :
                        toks[i].type = "RIGHT_PAREN" /\ CoveredBy(toks[i]) = {k}

\* tokenize has returned an identifier, a LEFT_PAREN right after it and, after
\* a space, another identifier
C23_Witness ==
    /\ phase = "tokenized"
    /\ input = <<"x", "(", " ", "o">>
    /\ Len(tokens) = 4
    /\ tokens[1].type = "IDENTIFIER" /\ CoveredBy(tokens[1]) = {1}
    /\ tokens[2].type = "LEFT_PAREN" /\ CoveredBy(tokens[2]) = {2}
    /\ tokens[3].type = "IDENTIFIER" /\ CoveredBy(tokens[3]) = {4}

\* #primary has been entered and has not yet looked at the token
PrimaryEntered ==
    /\ phase = "tokenized"
    /\ parser.status = "running"
    /\ Top(parser).fn = "primary"
    /\ Top(parser).pc = "entry"

\* the message of the thrown error starts with "Unexpected token"
UnexpectedTokenThrown ==
    /\ phase = "parseFailed"
    /\ parser.error.message # <<>>
    /\ parser.error.message[1] = "Unexpected token '"

\* C24: the last throw of #primary, "Unexpected token '<value>'" with expected
\* 'identifier or "("', is never reached: when #primary is entered the token
\* under the cursor is never NOT, which #notExpression has consumed, and each
\* of the other six types has a branch before it; so every error whose message
\* starts with "Unexpected token" is the one of parse for the token left over
\* after the top-level expression, with expected "end of expression".
C24_GenericPrimaryThrowUnreachable ==
    /\ PrimaryEntered =>
          Peek(tokens, parser).type \in
              {"LEFT_PAREN", "IDENTIFIER", "EOF", "RIGHT_PAREN", "AND", "OR"}
    /\ ParserHasTokens =>
          \A i \in 1..Len(tokens) :
              tokens[i].type \in {"IDENTIFIER", "AND", "OR", "NOT", "LEFT_PAREN",
                                  "RIGHT_PAREN", "EOF"}
    /\ UnexpectedTokenThrown =>
          /\ parser.error.expected = <<"end of expression">>
          /\ parser.error.expected # <<"identifier or \"(\"">>
          /\ LeftoverAfter(tokens, parser.current)
          /\ FailedOn(parser.current + 1)
          /\ parser.error.message =
                <<"Unexpected token '">> \o tokens[parser.current + 1].value \o <<"'">>

\* parse has thrown on the second not of "not a not b", a NOT token where no
\* primary is expected
C24_Witness ==
    /\ UnexpectedTokenThrown
    /\ input = Join(<<NOT, A, NOT, B>>)
    /\ tokens[3].type = "NOT"
    /\ FailedOn(3)
    /\ parser.error.message = <<"Unexpected token '", "n", "o", "t", "'">>
    /\ parser.error.expected = <<"end of expression">>

=============================================================================
